---- MODULE Spec2Model ----
(***************************************************************************)
(* Model of average.py: the averaging pipeline                             *)
(*   get_directory -> remove_final_csv -> process_csv_files -> show_gui    *)
(* run by main(), over a directory of CSV measurement files.               *)
(*                                                                         *)
(* Magnitudes are integers in units of 10^-6 dB, so that round(x, 6) is    *)
(* rounding a rational to the nearest integer.  A cell that pandas holds   *)
(* as NaN is a column missing from the row's domain.  Filesystem calls on  *)
(* the aggregate path (unlink, to_csv) are taken to succeed.               *)
(***************************************************************************)
EXTENDS Integers, Sequences, FiniteSets, TLC

\* ------------------------------------------------------------------ bounds
MaxRows == 2        \* rows of one input file
MaxTotalRows == 3   \* rows of all input files together
MaxRuns == 2        \* consecutive runs on the directory

\* the cell values the input files draw on: frequencies in Hz, magnitudes
\* in 10^-6 dB
Freqs == {100, 200}
Mags == {0 - 3, 0, 2}

\* ------------------------------------------------------------- file names
DirName == "sweep"
InputNames == {[stem |-> "a", ext |-> "csv"], [stem |-> "b", ext |-> "csv"]}
NotesName == [stem |-> "notes", ext |-> "txt"]
\* The aggregate's name as the specification gives it: <directory-name>.csv
AggregateName == [stem |-> DirName, ext |-> "csv"]

\* Mutant: the name the docstrings use, final.csv
LiteralFinalName == [stem |-> "final", ext |-> "csv"]

\* f"{directory.name}.csv"
final_csv_name == [stem |-> DirName, ext |-> "csv"]

\* ---------------------------------------------------------- file contents
FreqCol == "Frequency(Hz)"
PaddedFreqCol == " Frequency(Hz) "
MagCol == "Magnitude(dB)"

\* the header rows of the input files, as the sets of required columns they
\* carry (other columns play no part); a padded header is drawn on
\* single-column files
HeaderSets == {{}, {FreqCol}, {PaddedFreqCol}, {MagCol}, {FreqCol, MagCol}}

CellValues(c) == IF c = MagCol THEN Mags ELSE Freqs

RowsOver(cols) ==
  {r \in [cols -> Freqs \cup Mags] : \A c \in cols : r[c] \in CellValues(c)}

SeqsUpTo(S, n) == UNION {[1..k -> S] : k \in 0..n}

Tables ==
  UNION {[kind : {"table"}, columns : {cols}, rows : SeqsUpTo(RowsOver(cols), MaxRows)]
           : cols \in HeaderSets}

Bad == [kind |-> "bad"]
Text == [kind |-> "text"]

\* What an earlier run may have left behind as <directory-name>.csv.
StaleTable ==
  [kind |-> "table", columns |-> {FreqCol, MagCol},
   rows |-> <<[c \in {FreqCol, MagCol} |-> IF c = FreqCol THEN 200 ELSE 2]>>]

NumRows(content) == IF content.kind = "table" THEN Len(content.rows) ELSE 0

RECURSIVE TotalRows(_, _)
TotalRows(dir, names) ==
  IF names = {} THEN 0
  ELSE LET n == CHOOSE x \in names : TRUE
       IN NumRows(dir[n]) + TotalRows(dir, names \ {n})

\* A directory: the partial function from the names present to their contents.
InputDirs ==
  {d \in UNION {[S -> Tables \cup {Bad}] : S \in SUBSET InputNames} :
      TotalRows(d, DOMAIN d) <= MaxTotalRows}

Directories ==
  {d @@ p @@ (NotesName :> Text) :
      d \in InputDirs, p \in {<<>>, (AggregateName :> StaleTable)}}

\* ---------------------------------------------------------------- pandas
\* col.strip()
Strip(col) == IF col = PaddedFreqCol THEN FreqCol ELSE col

\* df.columns = [col.strip() for col in df.columns]
StripFrame(t) ==
  LET cols == {Strip(c) : c \in t.columns}
      raw(c) == CHOOSE x \in t.columns : Strip(x) = c
  IN [columns |-> cols,
      rows |-> [i \in DOMAIN t.rows |-> [c \in cols |-> t.rows[i][raw(c)]]]]

\* pd.read_csv(file) raises on a file that is no table
Parses(content) == content.kind = "table"

RECURSIVE Concat(_)
\* pd.concat(dataframes, ignore_index=True): union of the columns, rows in order
Concat(dfs) ==
  IF dfs = <<>> THEN [columns |-> {}, rows |-> <<>>]
  ELSE LET rest == Concat(Tail(dfs))
       IN [columns |-> Head(dfs).columns \cup rest.columns,
           rows |-> Head(dfs).rows \o rest.rows]

RECURSIVE SumMag(_)
SumMag(rows) == IF rows = <<>> THEN 0 ELSE Head(rows)[MagCol] + SumMag(Tail(rows))

\* Mutant: the mean cut off below the 6th decimal instead of rounded
RoundFloor(num, den) == num \div den

\* round(num/den, 6) in units of 10^-6: nearest integer, ties to the even one
RoundHalfEven(num, den) ==
  LET q == num \div den
      r == num % den
  IN IF 2 * r < den THEN q
     ELSE IF 2 * r > den THEN q + 1
     ELSE IF q % 2 = 0 THEN q ELSE q + 1

\* x.mean() over the group's non-NaN magnitudes, over all rows of the combined table
GroupMean(rows, f) ==
  LET InGroup(r) == FreqCol \in DOMAIN r /\ r[FreqCol] = f /\ MagCol \in DOMAIN r
      ms == SelectSeq(rows, InGroup)
  IN IF ms = <<>> THEN [c \in {FreqCol} |-> f]
     ELSE [c \in {FreqCol, MagCol} |->
             IF c = FreqCol THEN f ELSE RoundHalfEven(SumMag(ms), Len(ms))]

RECURSIVE SortedSeq(_)
SortedSeq(S) ==
  IF S = {} THEN <<>>
  ELSE LET lo == CHOOSE x \in S : \A y \in S : x <= y
       IN <<lo>> \o SortedSeq(S \ {lo})

\* combined_df.groupby("Frequency(Hz)", as_index=False).agg({...}): keys sorted,
\* NaN keys dropped
GroupBy(combined) ==
  LET keys == {combined.rows[i][FreqCol] :
                 i \in {j \in DOMAIN combined.rows : FreqCol \in DOMAIN combined.rows[j]}}
      order == SortedSeq(keys)
  IN [kind |-> "table", columns |-> {FreqCol, MagCol},
      rows |-> [i \in DOMAIN order |-> GroupMean(combined.rows, order[i])]]

\* Mutant: only the grouping key is required
SchemaKeyOnly(combined) == FreqCol \in combined.columns

\* groupby raises KeyError without the key column, agg without the value column
SchemaOk(combined) == FreqCol \in combined.columns /\ MagCol \in combined.columns

\* show_gui's check of the columns of the file it read
ViewerColumnsOk(df) == FreqCol \in df.columns /\ MagCol \in df.columns

\* Mutant: every file of the directory is enumerated
GlobAll(dir) == DOMAIN dir

\* directory.glob("*.csv")
GlobCsv(dir) == {n \in DOMAIN dir : n.ext = "csv"}

Orders(S) == {s \in [1..Cardinality(S) -> S] : \A i, j \in DOMAIN s : s[i] = s[j] => i = j}

\* [file for file in csv_files if file != final_csv_path]
FilterFinal(files) == SelectSeq(files, LAMBDA n : n # final_csv_name)

\* ----------------------------------------------------------------- state
VARIABLES
  pc,          \* position of the run
  run,         \* number of the run in progress
  entry,       \* "main": the script; "call": process_csv_files called alone
  dirKind,     \* what the path argument names
  fs,          \* the directory's files
  csv_files,   \* candidates not yet read, in enumeration order
  dataframes,  \* frames read so far
  error,       \* exception raised, "none" if none
  exitCode,    \* process exit status, meaningful at pc = "done" under main
  stages,      \* history: the stages started in this run, in order
  fs0,         \* history: the directory at run start
  globbed,     \* history: the names enumerated by glob in this run
  deletions,   \* history: unlink calls in this run
  writes,      \* history: to_csv calls in this run
  readAny,     \* history: a read_csv was attempted in this run
  noData,      \* history: which no-data return was taken
  shown,       \* history: what the viewer rendered, <<>> if nothing
  cleanOut     \* history: the aggregate a first run without prior output left

vars == <<pc, run, entry, dirKind, fs, csv_files, dataframes, error, exitCode,
          stages, fs0, globbed, deletions, writes, readAny, noData, shown, cleanOut>>

Init ==
  /\ entry \in {"main", "call"}
  /\ \/ dirKind = "ok" /\ fs \in Directories
     \/ /\ entry = "main"
        /\ dirKind \in {"missing", "notdir", "unreadable"}
        /\ fs = (AggregateName :> StaleTable) @@ (NotesName :> Text)
  /\ pc = IF entry = "main" THEN "resolve" ELSE "glob"
  /\ run = 1
  /\ csv_files = <<>>
  /\ dataframes = <<>>
  /\ error = "none"
  /\ exitCode = 0
  /\ stages = IF entry = "main" THEN <<>> ELSE <<"Aggregator">>
  /\ fs0 = fs
  /\ globbed = {}
  /\ deletions = 0
  /\ writes = 0
  /\ readAny = FALSE
  /\ noData = "none"
  /\ shown = <<>>
  /\ cleanOut = <<>>

\* where a raised exception goes: main's handlers, or out of the call
Raised == IF entry = "main" THEN "except" ELSE "done"
\* where a return of process_csv_files goes
Returned == IF entry = "main" THEN "check" ELSE "done"

\* Mutant: the directory is not validated
ResolveUnchecked ==
  /\ pc = "resolve"
  /\ stages' = Append(stages, "Resolver")
  /\ pc' = "remove"
  /\ UNCHANGED <<run, entry, dirKind, fs, csv_files, dataframes, error, exitCode, fs0,
                 globbed, deletions, writes, readAny, noData, shown, cleanOut>>

\* get_directory
Resolve ==
  /\ pc = "resolve"
  /\ stages' = Append(stages, "Resolver")
  /\ IF dirKind = "ok"
       THEN pc' = "remove" /\ error' = error
       ELSE pc' = "except" /\ error' = "ValueError: directory"
  /\ UNCHANGED <<run, entry, dirKind, fs, csv_files, dataframes, exitCode, fs0,
                 globbed, deletions, writes, readAny, noData, shown, cleanOut>>

\* Mutant: the prior aggregate is left in place
RemoveKeeps ==
  /\ pc = "remove"
  /\ stages' = Append(stages, "Remover")
  /\ pc' = "glob"
  /\ UNCHANGED <<run, entry, dirKind, fs, csv_files, dataframes, error, exitCode, fs0,
                 globbed, deletions, writes, readAny, noData, shown, cleanOut>>

\* remove_final_csv
Remove ==
  /\ pc = "remove"
  /\ stages' = Append(stages, "Remover")
  /\ IF final_csv_name \in DOMAIN fs
       THEN /\ fs' = [n \in DOMAIN fs \ {final_csv_name} |-> fs[n]]
            /\ deletions' = deletions + 1
       ELSE UNCHANGED <<fs, deletions>>
  /\ pc' = "glob"
  /\ UNCHANGED <<run, entry, dirKind, csv_files, dataframes, error, exitCode, fs0,
                 globbed, writes, readAny, noData, shown, cleanOut>>

\* process_csv_files, up to the loop: glob, the no-input check, the filter
Glob ==
  /\ pc = "glob"
  /\ stages' = IF entry = "main" THEN Append(stages, "Aggregator") ELSE stages
  /\ \E order \in Orders(GlobCsv(fs)) :
       /\ globbed' = GlobCsv(fs)
       /\ IF order = <<>>
            THEN /\ error' = "ValueError: no CSV files"
                 /\ pc' = Raised
                 /\ csv_files' = csv_files
            ELSE /\ csv_files' = FilterFinal(order)
                 /\ pc' = "loop"
                 /\ error' = error
  /\ UNCHANGED <<run, entry, dirKind, fs, dataframes, exitCode, fs0,
                 deletions, writes, readAny, noData, shown, cleanOut>>

\* one iteration of the for loop
ReadFile ==
  /\ pc = "loop"
  /\ csv_files # <<>>
  /\ readAny' = TRUE
  /\ LET file == Head(csv_files) IN
       IF Parses(fs[file])
         THEN /\ dataframes' = Append(dataframes, StripFrame(fs[file]))
              /\ csv_files' = Tail(csv_files)
              /\ UNCHANGED <<pc, noData>>
         ELSE IF dataframes = <<>>
           THEN /\ pc' = Returned
                /\ noData' = "early"
                /\ UNCHANGED <<csv_files, dataframes>>
           ELSE /\ csv_files' = Tail(csv_files)
                /\ UNCHANGED <<pc, dataframes, noData>>
  /\ UNCHANGED <<run, entry, dirKind, fs, error, exitCode, stages, fs0,
                 globbed, deletions, writes, shown, cleanOut>>

\* after the loop: the no-data check, concat, groupby, to_csv
Aggregate ==
  /\ pc = "loop"
  /\ csv_files = <<>>
  /\ IF dataframes = <<>>
       THEN /\ pc' = Returned
            /\ noData' = "empty"
            /\ UNCHANGED <<fs, writes, error>>
       ELSE LET combined_df == Concat(dataframes) IN
            IF SchemaOk(combined_df)
              THEN /\ fs' = (final_csv_name :> GroupBy(combined_df)) @@ fs
                   /\ writes' = writes + 1
                   /\ pc' = Returned
                   /\ UNCHANGED <<noData, error>>
              ELSE /\ error' = "KeyError"
                   /\ pc' = Raised
                   /\ UNCHANGED <<fs, writes, noData>>
  /\ UNCHANGED <<run, entry, dirKind, csv_files, dataframes, exitCode, stages, fs0,
                 globbed, deletions, readAny, shown, cleanOut>>

\* Mutant: show_gui is called whether or not the aggregate exists
CheckOutputAlwaysViews ==
  /\ pc = "check"
  /\ pc' = "view"
  /\ UNCHANGED <<run, entry, dirKind, fs, csv_files, dataframes, error, exitCode, stages,
                 fs0, globbed, deletions, writes, readAny, noData, shown, cleanOut>>

\* main, after process_csv_files returned: final_csv_path.exists()
CheckOutput ==
  /\ pc = "check"
  /\ IF final_csv_name \in DOMAIN fs
       THEN pc' = "view" /\ exitCode' = exitCode
       ELSE pc' = "done" /\ exitCode' = 0
  /\ UNCHANGED <<run, entry, dirKind, fs, csv_files, dataframes, error, stages, fs0,
                 globbed, deletions, writes, readAny, noData, shown, cleanOut>>

\* show_gui: a read or schema failure returns; Tk may raise without a display
View ==
  /\ pc = "view"
  /\ stages' = Append(stages, "Viewer")
  /\ IF \/ final_csv_name \notin DOMAIN fs
        \/ ~Parses(fs[final_csv_name])
        \/ ~ViewerColumnsOk(fs[final_csv_name])
       THEN pc' = "done" /\ exitCode' = 0 /\ UNCHANGED <<shown, error>>
       ELSE \E display \in BOOLEAN :
                IF display
                  THEN /\ shown' = <<fs[final_csv_name]>>
                       /\ pc' = "done"
                       /\ exitCode' = 0
                       /\ error' = error
                  ELSE /\ error' = "TclError"
                       /\ pc' = "except"
                       /\ UNCHANGED <<shown, exitCode>>
  /\ UNCHANGED <<run, entry, dirKind, fs, csv_files, dataframes, fs0,
                 globbed, deletions, writes, readAny, noData, cleanOut>>

IsValueError(e) == e \in {"ValueError: directory", "ValueError: no CSV files"}

\* main's except clauses: ValueError, then Exception; each prints and exit(1)
HandlerExit(e) == IF IsValueError(e) THEN 1 ELSE 1

Except ==
  /\ pc = "except"
  /\ error # "none"
  /\ exitCode' = HandlerExit(error)
  /\ pc' = "done"
  /\ UNCHANGED <<run, entry, dirKind, fs, csv_files, dataframes, error, stages, fs0,
                 globbed, deletions, writes, readAny, noData, shown, cleanOut>>

\* the same command is run again on the directory as the last run left it
Rerun ==
  /\ pc = "done"
  /\ run < MaxRuns
  /\ run' = run + 1
  /\ pc' = IF entry = "main" THEN "resolve" ELSE "glob"
  /\ csv_files' = <<>>
  /\ dataframes' = <<>>
  /\ error' = "none"
  /\ exitCode' = 0
  /\ stages' = IF entry = "main" THEN <<>> ELSE <<"Aggregator">>
  /\ fs0' = fs
  /\ globbed' = {}
  /\ deletions' = 0
  /\ writes' = 0
  /\ readAny' = FALSE
  /\ noData' = "none"
  /\ shown' = <<>>
  /\ cleanOut' = IF run = 1 /\ AggregateName \notin DOMAIN fs0
                   THEN <<[n \in DOMAIN fs \cap {AggregateName} |-> fs[n]]>>
                   ELSE cleanOut
  /\ UNCHANGED <<entry, dirKind, fs>>

Next ==
  \/ Resolve
  \/ Remove
  \/ Glob
  \/ ReadFile
  \/ Aggregate
  \/ CheckOutput
  \/ View
  \/ Except
  \/ Rerun

Spec == Init /\ [][Next]_vars

\* ------------------------------------------------------ the claims' terms
\* The definitions below state the claims; they read the directory as the
\* specification describes it and use none of the operators above.
MainRun == entry = "main" /\ dirKind = "ok"

Ended == pc = "done"

\* the candidate CSVs: any *.csv other than <directory-name>.csv
Candidates(dir) == {n \in DOMAIN dir : n.ext = "csv" /\ n # AggregateName}

IsTable(content) == content.kind = "table"

\* required columns are identified by name, whitespace-insensitively
FreqHeaders(content) == content.columns \cap {FreqCol, PaddedFreqCol}
HasFreq(content) == FreqHeaders(content) # {}
HasMag(content) == MagCol \in content.columns

ParsedCandidates(dir) == {n \in Candidates(dir) : IsTable(dir[n])}

\* the cells <<file, row>> of the parsed candidates that carry frequency f
FreqCells(dir, f) ==
  {c \in UNION {{<<n, i>> : i \in DOMAIN dir[n].rows} : n \in ParsedCandidates(dir)} :
     \E h \in FreqHeaders(dir[c[1]]) : dir[c[1]].rows[c[2]][h] = f}

\* ... and that carry a magnitude as well
MagCells(dir, f) == {c \in FreqCells(dir, f) : HasMag(dir[c[1]])}

RECURSIVE MagTotal(_, _)
MagTotal(dir, cells) ==
  IF cells = {} THEN 0
  ELSE LET c == CHOOSE x \in cells : TRUE
       IN dir[c[1]].rows[c[2]][MagCol] + MagTotal(dir, cells \ {c})

InputFrequencies(dir) == {f \in Freqs : FreqCells(dir, f) # {}}

Abs(x) == IF x < 0 THEN 0 - x ELSE x

\* m is total/k rounded to the nearest unit, a tie going to the even unit
IsRoundedMean(m, total, k) ==
  /\ 2 * Abs(m * k - total) <= k
  /\ 2 * Abs(m * k - total) = k => m % 2 = 0

OutputPresent == AggregateName \in DOMAIN fs

OutputRows == fs[AggregateName].rows

StagePlan == <<"Resolver", "Remover", "Aggregator", "Viewer">>

\* ----------------------------------------------------------------- C1
\* C1: a full run on a valid directory with at least one candidate CSV that
\* parses and carries the required columns writes <directory-name>.csv whose
\* frequencies are exactly the distinct frequencies of the input rows, one
\* output row each.
C1_ExactFrequencySet ==
  (MainRun /\ Ended
     /\ \E n \in ParsedCandidates(fs0) : HasFreq(fs0[n]) /\ HasMag(fs0[n]))
  => /\ OutputPresent
     /\ writes = 1
     /\ {OutputRows[i][FreqCol] : i \in DOMAIN OutputRows} = InputFrequencies(fs0)
     /\ Len(OutputRows) = Cardinality(InputFrequencies(fs0))

\* ----------------------------------------------------------------- C2
\* C2: whenever process_csv_files writes the aggregate, every frequency that
\* occurs in k >= 1 magnitude-carrying rows of the parsed input files has an
\* output row whose magnitude is the mean of those k magnitudes, taken over
\* the rows of all files together, rounded to the 6th decimal.
C2_RoundedMeanOfAllRows ==
  (dirKind = "ok" /\ writes = 1)
  => \A f \in Freqs :
       MagCells(fs0, f) # {}
       => \E i \in DOMAIN OutputRows :
            /\ OutputRows[i][FreqCol] = f
            /\ MagCol \in DOMAIN OutputRows[i]
            /\ IsRoundedMean(OutputRows[i][MagCol], MagTotal(fs0, MagCells(fs0, f)),
                             Cardinality(MagCells(fs0, f)))

\* Witness of C2: an aggregate written from two files that share a frequency,
\* with unequal row counts and a mean that needs rounding.
C2_Witness ==
  /\ writes = 1
  /\ \E f \in Freqs :
       /\ Cardinality(MagCells(fs0, f)) = 3
       /\ Cardinality({c[1] : c \in MagCells(fs0, f)}) = 2
       /\ MagTotal(fs0, MagCells(fs0, f)) % 3 # 0

\* ----------------------------------------------------------------- C3
\* C3: a file that fails to parse is skipped and the run continues: a run
\* ends without output and without error only if no candidate file parses.
C3_SkipAndContinue ==
  (MainRun /\ Ended /\ error = "none" /\ ~OutputPresent)
  => ParsedCandidates(fs0) = {}

\* ----------------------------------------------------------------- C4
\* C4: a run started on unchanged inputs while a prior aggregate exists ends
\* with the aggregate a clean first run left.
C4_RerunIdempotent ==
  (MainRun /\ Ended /\ run > 1 /\ cleanOut # <<>> /\ AggregateName \in DOMAIN fs0)
  => [n \in DOMAIN fs \cap {AggregateName} |-> fs[n]] = cleanOut[1]

\* ----------------------------------------------------------------- C5
\* C5: a run on a valid directory without any CSV file raises the no-input
\* error, exits with status 1, leaves the directory as it was and launches
\* no viewer.
C5_NoCsvFiles ==
  (MainRun /\ {n \in DOMAIN fs0 : n.ext = "csv"} = {})
  => /\ fs = fs0
     /\ writes = 0
     /\ shown = <<>>
     /\ \A i \in DOMAIN stages : stages[i] # "Viewer"
     /\ Ended => error = "ValueError: no CSV files" /\ exitCode = 1

C5_Witness ==
  MainRun /\ Ended /\ {n \in DOMAIN fs0 : n.ext = "csv"} = {}

\* ----------------------------------------------------------------- C6
SchemaFailure ==
  /\ error = "KeyError"
  /\ exitCode = 1
  /\ ~OutputPresent
  /\ writes = 0
  /\ \A i \in DOMAIN stages : stages[i] # "Viewer"

AllCandidatesParse(dir) == Candidates(dir) # {} /\ ParsedCandidates(dir) = Candidates(dir)

\* C6 as stated: all candidate files parse and none of them has the required
\* columns Frequency(Hz) and Magnitude(dB): the run ends with a schema error,
\* no output, no viewer, status 1.
C6_NoFileHasBothColumns ==
  (MainRun /\ Ended /\ AllCandidatesParse(fs0)
     /\ \A n \in Candidates(fs0) : ~(HasFreq(fs0[n]) /\ HasMag(fs0[n])))
  => SchemaFailure

\* C6 amended: all candidate files parse and one of the required columns is
\* carried by none of them: the run ends with a schema error, no output, no
\* viewer, status 1.
C6_ColumnMissingFromAllFiles ==
  (MainRun /\ Ended /\ AllCandidatesParse(fs0)
     /\ \/ \A n \in Candidates(fs0) : ~HasFreq(fs0[n])
        \/ \A n \in Candidates(fs0) : ~HasMag(fs0[n]))
  => SchemaFailure

C6_Witness ==
  /\ MainRun /\ Ended /\ AllCandidatesParse(fs0)
  /\ Cardinality(Candidates(fs0)) = 2
  /\ \E n \in Candidates(fs0) : HasFreq(fs0[n]) /\ fs0[n].rows # <<>>
  /\ \A n \in Candidates(fs0) : ~HasMag(fs0[n])
  /\ AggregateName \in DOMAIN fs0

\* ----------------------------------------------------------------- C7
\* C7: in a run that passed directory validation the aggregate found at run
\* start is gone before any input is read, the viewer is launched only on an
\* aggregate written in the same run, and a run in which no input parses ends
\* with no aggregate and no viewer launch.
C7_NoStaleAggregate ==
  MainRun
  => /\ (pc \in {"glob", "loop"} \/ readAny) /\ writes = 0 => ~OutputPresent
     /\ (\E i \in DOMAIN stages : stages[i] = "Viewer") => writes = 1 /\ OutputPresent
     /\ shown # <<>> => writes = 1 /\ OutputPresent /\ shown[1] = fs[AggregateName]
     /\ Ended /\ ParsedCandidates(fs0) = {}
          => ~OutputPresent /\ shown = <<>> /\ \A i \in DOMAIN stages : stages[i] # "Viewer"

C7_Witness ==
  /\ MainRun /\ Ended
  /\ AggregateName \in DOMAIN fs0
  /\ Candidates(fs0) # {}
  /\ ParsedCandidates(fs0) = {}
  /\ readAny

\* ----------------------------------------------------------------- C8
IsPrefix(s, t) == Len(s) <= Len(t) /\ \A i \in DOMAIN s : s[i] = t[i]

C8_State ==
  entry = "main"
  => /\ IsPrefix(stages, StagePlan)
     /\ Ended => (exitCode = 1 <=> error # "none")
     /\ Ended => exitCode \in {0, 1}
     /\ dirKind # "ok" => /\ deletions = 0
                          /\ writes = 0
                          /\ fs = fs0
                          /\ IsPrefix(stages, <<"Resolver">>)

C8_Step ==
  (entry = "main" /\ error # "none" /\ run' = run)
  => /\ stages' = stages
     /\ fs' = fs
     /\ error' = error
     /\ pc' = "done"
     /\ exitCode' = 1

\* C8: the stages of a run start in the order Resolver, Remover, Aggregator,
\* Viewer; once a stage has raised, no later stage starts, nothing more is
\* changed and the process exits with status 1; a Resolver failure deletes
\* nothing; status 0 is reached only by a run in which no stage raised.
C8_SequentialStages == [](C8_State) /\ [][C8_Step]_vars

C8_Witness ==
  /\ entry = "main" /\ Ended
  /\ dirKind = "unreadable"
  /\ AggregateName \in DOMAIN fs
  /\ exitCode = 1

\* ----------------------------------------------------------------- C9
\* C9: a run changes no file other than <directory-name>.csv: every other
\* file is there with its content as at run start, and the run deletes the
\* aggregate at most once and writes it at most once.
C9_OnlyAggregateChanges ==
  /\ DOMAIN fs \ {AggregateName} = DOMAIN fs0 \ {AggregateName}
  /\ \A n \in DOMAIN fs0 \ {AggregateName} : fs[n] = fs0[n]
  /\ deletions <= 1
  /\ writes <= 1

C9_Witness ==
  /\ Ended
  /\ deletions = 1
  /\ writes = 1
  /\ fs[AggregateName] # fs0[AggregateName]

\* ----------------------------------------------------------------- C10
\* C10: a full run on a directory whose only CSV is a prior aggregate deletes
\* it and fails with the no-CSV error and status 1; in a full run the
\* enumerated candidates never hold the aggregate, and the no-data return for
\* 'no candidates left after the exclusion' is taken only by a call of
\* process_csv_files without the Remover.
C10_PriorAggregateOnly ==
  /\ (MainRun /\ Ended /\ {n \in DOMAIN fs0 : n.ext = "csv"} = {AggregateName})
       => /\ deletions = 1
          /\ ~OutputPresent
          /\ error = "ValueError: no CSV files"
          /\ exitCode = 1
  /\ MainRun => AggregateName \notin globbed
  /\ noData = "empty" => entry = "call"

C10_Witness ==
  MainRun /\ Ended /\ {n \in DOMAIN fs0 : n.ext = "csv"} = {AggregateName}

====
